---- MODULE Spec2Model ----
(***************************************************************************)
(* Model of the ICU dashboard's streaming state reconciliation             *)
(* (src/unnamed/part_000): the authoritative patient collection, the       *)
(* per-patient heart-rate history and the connectivity flag, driven by the *)
(* socket events connect, disconnect, initial_patients and vitals_update.  *)
(*                                                                         *)
(* Object identity matters to the program (React compares state by         *)
(* reference), so every array and every entity object carries the address  *)
(* it was allocated at (field ref, or a ...Ref variable).  A socket event   *)
(* delivers freshly deserialised objects; addresses come from the counter  *)
(* heap.  A socket handler and the state updaters it enqueues are one      *)
(* action: the two updaters of a handler touch disjoint pieces of state    *)
(* and React applies queued updaters in order.                             *)
(*                                                                         *)
(* The server's worker task pipeline (src/server/src/utils/crypto.ts,      *)
(* src/server/src/workers/encryptWorker.ts) is a second specification,     *)
(* WorkerSpec, over the variable calls: the dashboard runs in the browser  *)
(* and shares no state with it.                                            *)
(***************************************************************************)
EXTENDS FiniteSets, Integers, Sequences, TLC

\* ------------------------------------------------------------------ bounds
\* longest payload of one socket event
MaxBatch == 2
\* cap on the allocation counter: an event is received only while the objects
\* it allocates fit below it
MaxHeap == 18

\* invocations of runEncryptionInWorker
MaxCalls == 2

\* ------------------------------------------------------- program constants
HISTORY_LENGTH == 20

\* A field that is missing from an inbound record reads as undefined.
Undefined == -1

\* Math.round(Math.sin(k * 0.6) * 3) for k = 0 .. 25 (i + offset, i < 20,
\* offset < 7); the base is an integer, so
\* Math.round(base + wave) = base + Math.round(wave).
Wave == << 0, 2, 3, 3, 2, 0, -1, -3, -3, -2, -1, 1, 2, 3, 3, 1, -1, -2, -3,
           -3, -2, 0, 2, 3, 3, 2 >>

\* ------------------------------------------------------------ input domain
Ids == {"a", "bb"}

\* patient.id.length
IdLength(id) == CASE id = "a" -> 1 [] id = "bb" -> 2

BaseVitals ==
    [heartRate |-> 70, bloodPressureSystolic |-> 120,
     bloodPressureDiastolic |-> 80, oxygenSaturation |-> 98,
     respiratoryRate |-> 16, temperature |-> 37, timestamp |-> 1]

Vitals ==
    { BaseVitals,
      [BaseVitals EXCEPT !.heartRate = 80],
      [BaseVitals EXCEPT !.timestamp = 2],
      [BaseVitals EXCEPT !.heartRate = Undefined] }

\* interface PatientVitals, as an object on the heap
PatientVitals(ref, id, v) ==
    [ref |-> ref, id |-> id, heartRate |-> v.heartRate,
     bloodPressureSystolic |-> v.bloodPressureSystolic,
     bloodPressureDiastolic |-> v.bloodPressureDiastolic,
     oxygenSaturation |-> v.oxygenSaturation,
     respiratoryRate |-> v.respiratoryRate,
     temperature |-> v.temperature, timestamp |-> v.timestamp]

WireRecords == Ids \X Vitals

\* the payloads a socket event can carry: sequences of at most MaxBatch records
Payloads == UNION { [1..n -> WireRecords] : n \in 0..MaxBatch }

\* JSON deserialisation of a payload: a fresh object per record, at the
\* addresses following the array's own
Deserialise(payload, base) ==
    [i \in 1..Len(payload) |->
        PatientVitals(base + i, payload[i][1], payload[i][2])]

VARIABLES
    patients,       \* useState<PatientVitals[]>: the array's elements
    patientsRef,    \* ... and the array's identity
    historyMap,     \* useState<Record<string, number[]>>: id -> [ref, vals]
    historyMapRef,  \* ... and the map object's identity
    isConnected,    \* useState(false)
    socket,         \* the socket.io connection: "idle" until the first
                    \* handshake, then "connected" or "disconnected"
    heap,           \* next free address
    lastEvent,      \* name of the last data event received
    lastBatch,      \* the array that event delivered (its elements)
    calls           \* server side: the invocations of runEncryptionInWorker,
                    \* each with its promise, its worker and the events in
                    \* flight from the worker

dashboardVars ==
    << patients, patientsRef, historyMap, historyMapRef, isConnected,
       socket, heap, lastEvent, lastBatch >>

vars == << patients, patientsRef, historyMap, historyMapRef, isConnected,
           socket, heap, lastEvent, lastBatch, calls >>

\* ---------------------------------------------------------------- helpers
Max(a, b) == IF a >= b THEN a ELSE b

Last(s) == s[Len(s)]

\* Array.prototype.slice(-n)
SliceLast(s, n) ==
    IF Len(s) <= n THEN s ELSE SubSeq(s, Len(s) - n + 1, Len(s))

\* reading a key of a plain object: undefined when absent
NoHistory == [ref |-> 0, vals |-> << >>]

Lookup(map, id) == IF id \in DOMAIN map THEN map[id] ELSE NoHistory

\* ------------------------------------------------------------ pure functions
arePatientsEqual(a, b) ==
    /\ a.heartRate = b.heartRate
    /\ a.bloodPressureSystolic = b.bloodPressureSystolic
    /\ a.bloodPressureDiastolic = b.bloodPressureDiastolic
    /\ a.oxygenSaturation = b.oxygenSaturation
    /\ a.respiratoryRate = b.respiratoryRate
    /\ a.temperature = b.temperature
    /\ a.timestamp = b.timestamp

\* the numbers of the seed array; fresh is the address of the new array
buildSeedHistory(patient, fresh) ==
    LET base   == IF patient.heartRate = 0 \/ patient.heartRate = Undefined
                  THEN 70 ELSE patient.heartRate
        offset == IdLength(patient.id) % 7
    IN  [ref  |-> fresh,
         vals |-> [i \in 1..HISTORY_LENGTH |->
                      Max(30, base + Wave[(i - 1) + offset + 1])]]

\* appendHistory without the guard of l.45
appendHistoryNoDedup(history, nextValue, patient, fresh) ==
    LET base == IF history = NoHistory
                THEN buildSeedHistory(patient, fresh) ELSE history
    IN  [ref  |-> fresh,
         vals |-> Append(SliceLast(base.vals, HISTORY_LENGTH - 1), nextValue)]

\* appendHistory keeping HISTORY_LENGTH elements of the previous array
appendHistoryKeepsAll(history, nextValue, patient, fresh) ==
    LET base == IF history = NoHistory
                THEN buildSeedHistory(patient, fresh) ELSE history
    IN  IF Last(base.vals) = nextValue
        THEN base
        ELSE [ref  |-> fresh,
              vals |-> Append(SliceLast(base.vals, HISTORY_LENGTH),
                              nextValue)]

appendHistory(history, nextValue, patient, fresh) ==
    LET base == IF history = NoHistory
                THEN buildSeedHistory(patient, fresh) ELSE history
    IN  IF Last(base.vals) = nextValue
        THEN base
        ELSE [ref  |-> fresh,
              vals |-> Append(SliceLast(base.vals, HISTORY_LENGTH - 1),
                              nextValue)]

\* ------------------------------------------- new Map(updates.map(...)) (l.140)
\* A Map keeps a key at the position of its first insertion and the value of
\* its last: the keys in iteration order ...
RECURSIVE MapKeys(_)
MapKeys(updates) ==
    IF updates = << >> THEN << >>
    ELSE LET front == MapKeys(SubSeq(updates, 1, Len(updates) - 1))
             id    == Last(updates).id
         IN  IF \E k \in 1..Len(front) : front[k] = id
             THEN front ELSE Append(front, id)

\* ... and updateMap.get(id) for an id of the batch
MapGet(updates, id) ==
    updates[CHOOSE i \in 1..Len(updates) :
               /\ updates[i].id = id
               /\ \A j \in (i + 1)..Len(updates) : updates[j].id # id]

Has(keys, id) == \E k \in 1..Len(keys) : keys[k] = id

\* updateMap.delete(id)
Delete(keys, id) == SelectSeq(keys, LAMBDA k : k # id)

\* WalkStep pushing the update without comparing it (l.148 left out)
WalkStepNoCompare(acc, patient, updates) ==
    IF Has(acc.keys, patient.id)
    THEN [keys |-> Delete(acc.keys, patient.id),
          nextPatients |-> Append(acc.nextPatients,
                                  MapGet(updates, patient.id)),
          changed |-> TRUE]
    ELSE [acc EXCEPT !.nextPatients = Append(@, patient)]

\* WalkStep forgetting the patients the batch does not mention (l.154-156
\* left out)
WalkStepDropsUnmatched(acc, patient, updates) ==
    IF Has(acc.keys, patient.id)
    THEN LET updated == MapGet(updates, patient.id)
         IN  IF ~arePatientsEqual(patient, updated)
             THEN [keys |-> Delete(acc.keys, patient.id),
                   nextPatients |-> Append(acc.nextPatients, updated),
                   changed |-> TRUE]
             ELSE [keys |-> Delete(acc.keys, patient.id),
                   nextPatients |-> Append(acc.nextPatients, patient),
                   changed |-> acc.changed]
    ELSE [acc EXCEPT !.changed = TRUE]

\* one turn of prevPatients.forEach (l.144-157); acc = the Map's remaining
\* keys, nextPatients and changed
WalkStep(acc, patient, updates) ==
    IF Has(acc.keys, patient.id)
    THEN LET updated == MapGet(updates, patient.id)
         IN  IF ~arePatientsEqual(patient, updated)
             THEN [keys |-> Delete(acc.keys, patient.id),
                   nextPatients |-> Append(acc.nextPatients, updated),
                   changed |-> TRUE]
             ELSE [keys |-> Delete(acc.keys, patient.id),
                   nextPatients |-> Append(acc.nextPatients, patient),
                   changed |-> acc.changed]
    ELSE [acc EXCEPT !.nextPatients = Append(@, patient)]

RECURSIVE Walk(_, _, _)
Walk(prevPatients, n, updates) ==
    IF n = 0
    THEN [keys |-> MapKeys(updates), nextPatients |-> << >>,
          changed |-> FALSE]
    ELSE WalkStep(Walk(prevPatients, n - 1, updates), prevPatients[n],
                  updates)

\* updateMap.forEach(newPatient => ...) (l.159-162)
AppendNew(acc, updates) ==
    [keys |-> << >>,
     nextPatients |-> acc.nextPatients \o
         [k \in 1..Len(acc.keys) |-> MapGet(updates, acc.keys[k])],
     changed |-> acc.changed \/ acc.keys # << >>]

\* the updater returning nextPatients whatever changed says (l.164)
MergePatientsAlwaysNew(prevPatients, prevRef, updates, fresh) ==
    [elems |-> AppendNew(Walk(prevPatients, Len(prevPatients), updates),
                         updates).nextPatients,
     ref |-> fresh]

\* the updater given to setPatients (l.139-165): the new state, as the
\* array's elements and its identity
MergePatients(prevPatients, prevRef, updates, fresh) ==
    LET acc == AppendNew(Walk(prevPatients, Len(prevPatients), updates),
                         updates)
    IN  IF acc.changed
        THEN [elems |-> acc.nextPatients, ref |-> fresh]
        ELSE [elems |-> prevPatients, ref |-> prevRef]

\* the updater given to setHistoryMap (l.119-133); the map object next is
\* allocated at fresh, the array made for the i-th update at fresh + i
RECURSIVE HistoryLoop(_, _, _, _)
HistoryLoop(prev, updates, n, fresh) ==
    IF n = 0
    THEN [next |-> prev, changed |-> FALSE]
    ELSE LET acc            == HistoryLoop(prev, updates, n - 1, fresh)
             update         == updates[n]
             current        == Lookup(prev, update.id)
             updatedHistory == appendHistory(current, update.heartRate,
                                             update, fresh + n)
         IN  IF current.ref # updatedHistory.ref
             THEN [next |-> [k \in DOMAIN acc.next \cup {update.id} |->
                               IF k = update.id THEN updatedHistory
                               ELSE acc.next[k]],
                   changed |-> TRUE]
             ELSE acc

\* the updater returning next whatever changed says (l.132)
MergeHistoryAlwaysNew(prev, prevRef, updates, fresh) ==
    [map |-> HistoryLoop(prev, updates, Len(updates), fresh).next,
     ref |-> fresh]

MergeHistory(prev, prevRef, updates, fresh) ==
    LET acc == HistoryLoop(prev, updates, Len(updates), fresh)
    IN  IF acc.changed
        THEN [map |-> acc.next, ref |-> fresh]
        ELSE [map |-> prev, ref |-> prevRef]

\* pushHistoryBatch (l.116-134)
pushHistoryBatch(prev, prevRef, updates, fresh) ==
    IF Len(updates) = 0
    THEN [map |-> prev, ref |-> prevRef]
    ELSE MergeHistory(prev, prevRef, updates, fresh)

\* the setPatients half of applyUpdates (l.136-165)
applyUpdates(prevPatients, prevRef, updates, fresh) ==
    IF Len(updates) = 0
    THEN [elems |-> prevPatients, ref |-> prevRef]
    ELSE MergePatients(prevPatients, prevRef, updates, fresh)

\* ------------------------------------------------- worker task pipeline
\* (src/server/src/utils/crypto.ts, src/server/src/workers/encryptWorker.ts)
Calls == 1..MaxCalls

\* what a thrown Error can carry as its message
ErrorMessages == {"boom", ""}

\* exit codes of a worker thread
ExitCodes == {0, 1}

\* the events a Worker object emits in the caller's thread
Message(ok, error) == [type |-> "message", ok |-> ok, text |-> error, code |-> 0]

ErrorEvent(err) == [type |-> "error", ok |-> FALSE, text |-> err, code |-> 0]

ExitEvent(code) == [type |-> "exit", ok |-> FALSE, text |-> "", code |-> code]

NoEvent == [type |-> "none", ok |-> FALSE, text |-> "", code |-> 0]

\* `Worker exited with code ${code}`
ExitReason(code) ==
    CASE code = 0 -> "Worker exited with code 0"
      [] code = 1 -> "Worker exited with code 1"

\* an invocation that has not been made
NoCall ==
    [promise     |-> "none",    \* none, pending, resolved, rejected
     reason      |-> "",        \* the rejection's message
     settleCalls |-> 0,         \* calls of resolve / reject
     listeners   |-> {},        \* the events the Worker object listens to
     thread      |-> "none",    \* none, loading, listening, idle, exited
     fault       |-> "none",    \* none, or thrown by simulateHeavyEncryption
     faultText   |-> "",        \* ... and its message
     posted      |-> << >>,     \* what the worker gave parentPort.postMessage
     outbox      |-> << >>,     \* events emitted and not yet dispatched
     firstEvent  |-> NoEvent]   \* the first event a listener was called with

\* new Promise(...) (crypto.ts l.23-56): the worker is created, the three
\* listeners are registered and the payload is posted
NewCall ==
    [NoCall EXCEPT !.promise = "pending",
                   !.listeners = {"message", "error", "exit"},
                   !.thread = "loading"]

\* resolve / reject: only the first call settles a promise
Settle(c, outcome, why) ==
    IF c.promise = "pending"
    THEN [c EXCEPT !.promise = outcome, !.reason = why,
                   !.settleCalls = @ + 1]
    ELSE [c EXCEPT !.settleCalls = @ + 1]

\* a cleanup that forgets the exit listener
cleanupKeepsExit(c) == [c EXCEPT !.listeners = @ \cap {"exit"}]

\* cleanup (crypto.ts l.28-32)
cleanup(c) == [c EXCEPT !.listeners = {}]

\* the message listener rejecting with the error string as it is
onMessageNoFallback(c, msg) ==
    IF msg.ok
    THEN Settle(cleanup(c), "resolved", "")
    ELSE Settle(cleanup(c), "rejected", msg.text)

\* worker.once('message', ...) (crypto.ts l.34-41)
onMessage(c, msg) ==
    IF msg.ok
    THEN Settle(cleanup(c), "resolved", "")
    ELSE Settle(cleanup(c), "rejected",
                IF msg.text = "" THEN "Worker failed" ELSE msg.text)

\* worker.once('error', ...) (crypto.ts l.43-46)
onError(c, err) == Settle(cleanup(c), "rejected", err)

\* an exit listener that only cleans up
onExitNeverRejects(c, code) == cleanup(c)

\* worker.once('exit', ...) (crypto.ts l.48-53)
onExit(c, code) ==
    IF code # 0
    THEN Settle(cleanup(c), "rejected", ExitReason(code))
    ELSE cleanup(c)

\* EventEmitter.emit for a Worker object: a once-listener is removed before
\* it is called; an event without a listener is dropped
Dispatch(c, ev) ==
    IF ev.type \notin c.listeners
    THEN c
    ELSE LET d == [c EXCEPT !.listeners = @ \ {ev.type},
                            !.firstEvent = IF @ = NoEvent THEN ev ELSE @]
         IN  CASE ev.type = "message" -> onMessage(d, ev)
               [] ev.type = "error"   -> onError(d, ev.text)
               [] ev.type = "exit"    -> onExit(d, ev.code)

\* the worker's message handler without its try / catch: the fault is an
\* uncaught exception of the worker thread
workerOnMessageNoCatch(c, outcome) ==
    IF outcome.throws
    THEN [c EXCEPT !.fault = "thrown", !.faultText = outcome.text,
                   !.outbox = @ \o << ErrorEvent(outcome.text), ExitEvent(1) >>,
                   !.thread = "exited"]
    ELSE [c EXCEPT !.posted = Append(@, Message(TRUE, "")),
                   !.outbox = Append(@, Message(TRUE, "")),
                   !.thread = "idle"]

\* parentPort.on('message', ...) (encryptWorker.ts l.8-16); outcome says
\* whether simulateHeavyEncryption throws, and with what message
workerOnMessage(c, outcome) ==
    IF outcome.throws
    THEN [c EXCEPT !.fault = "thrown", !.faultText = outcome.text,
                   !.posted = Append(@, Message(FALSE, outcome.text)),
                   !.outbox = Append(@, Message(FALSE, outcome.text)),
                   !.thread = "idle"]
    ELSE [c EXCEPT !.posted = Append(@, Message(TRUE, "")),
                   !.outbox = Append(@, Message(TRUE, "")),
                   !.thread = "idle"]

Outcomes ==
    {[throws |-> FALSE, text |-> ""]}
        \cup {[throws |-> TRUE, text |-> e] : e \in ErrorMessages}

\* -------------------------------------------------------------------- state
\* addresses an event with n records uses, from base = heap:
\*   base                the delivered array
\*   base + 1 .. + n     its records
\*   base + n + 1        nextPatients
\*   base + n + 2        the new history map
\*   base + n + 2 + i    the history array made for record i
Cost(n) == 2 * n + 3

Init ==
    /\ patients = << >>
    /\ patientsRef = 1
    /\ historyMap = [k \in {} |-> NoHistory]
    /\ historyMapRef = 2
    /\ isConnected = FALSE
    /\ socket = "idle"
    /\ heap = 3
    /\ lastEvent = "none"
    /\ lastBatch = << >>
    /\ calls = [w \in Calls |-> NoCall]

\* a connect handler that leaves the flag alone
ConnectKeepsFlag ==
    /\ socket # "connected"
    /\ socket' = "connected"
    /\ UNCHANGED << patients, patientsRef, historyMap, historyMapRef,
                    isConnected, heap, lastEvent, lastBatch, calls >>

\* socket.on('connect') (l.106-109); socket.io emits connect after the first
\* handshake and after every reconnection (reconnection is on by default,
\* l.104)
Connect ==
    /\ socket # "connected"
    /\ socket' = "connected"
    /\ isConnected' = TRUE
    /\ UNCHANGED << patients, patientsRef, historyMap, historyMapRef, heap,
                    lastEvent, lastBatch, calls >>

\* a disconnect handler that blanks the display
DisconnectClears ==
    /\ socket = "connected"
    /\ socket' = "disconnected"
    /\ isConnected' = FALSE
    /\ patients' = << >>
    /\ historyMap' = [k \in {} |-> NoHistory]
    /\ UNCHANGED << patientsRef, historyMapRef, heap, lastEvent, lastBatch,
                    calls >>

\* socket.on('disconnect') (l.111-114)
Disconnect ==
    /\ socket = "connected"
    /\ socket' = "disconnected"
    /\ isConnected' = FALSE
    /\ UNCHANGED << patients, patientsRef, historyMap, historyMapRef, heap,
                    lastEvent, lastBatch, calls >>

\* an initial_patients handler that does not call pushHistoryBatch
InitialPatientsNoHistory ==
    /\ socket = "connected"
    /\ \E payload \in Payloads :
        LET n == Len(payload)
        IN  /\ heap + Cost(n) <= MaxHeap
            /\ patients' = Deserialise(payload, heap)
            /\ patientsRef' = heap
            /\ heap' = heap + Cost(n)
            /\ lastEvent' = "initial_patients"
            /\ lastBatch' = Deserialise(payload, heap)
    /\ UNCHANGED << historyMap, historyMapRef, isConnected, socket, calls >>

\* socket.on('initial_patients') (l.171-175)
InitialPatients ==
    /\ socket = "connected"
    /\ \E payload \in Payloads :
        LET n               == Len(payload)
            initialPatients == Deserialise(payload, heap)
            h == pushHistoryBatch(historyMap, historyMapRef, initialPatients,
                                  heap + n + 2)
        IN  /\ heap + Cost(n) <= MaxHeap
            /\ patients' = initialPatients
            /\ patientsRef' = heap
            /\ historyMap' = h.map
            /\ historyMapRef' = h.ref
            /\ heap' = heap + Cost(n)
            /\ lastEvent' = "initial_patients"
            /\ lastBatch' = initialPatients
    /\ UNCHANGED << isConnected, socket, calls >>

\* socket.on('vitals_update', applyUpdates) (l.178, l.136-168)
VitalsUpdate ==
    /\ socket = "connected"
    /\ \E payload \in Payloads :
        LET n       == Len(payload)
            updates == Deserialise(payload, heap)
            p == applyUpdates(patients, patientsRef, updates, heap + n + 1)
            h == pushHistoryBatch(historyMap, historyMapRef, updates,
                                  heap + n + 2)
        IN  /\ heap + Cost(n) <= MaxHeap
            /\ patients' = p.elems
            /\ patientsRef' = p.ref
            /\ historyMap' = h.map
            /\ historyMapRef' = h.ref
            /\ heap' = heap + Cost(n)
            /\ lastEvent' = "vitals_update"
            /\ lastBatch' = updates
    /\ UNCHANGED << isConnected, socket, calls >>

Next == Connect \/ Disconnect \/ InitialPatients \/ VitalsUpdate

Spec == Init /\ [][Next]_vars

\* ------------------------------------------------ worker pipeline actions
\* runEncryptionInWorker (crypto.ts l.20-57): invocations are numbered in the
\* order they are made
RunEncryptionInWorker(w) ==
    /\ calls[w].promise = "none"
    /\ \A v \in Calls : v < w => calls[v].promise # "none"
    /\ calls' = [calls EXCEPT ![w] = NewCall]
    /\ UNCHANGED dashboardVars

\* the worker thread has run encryptWorker.ts to its end: the handler is
\* registered on parentPort (encryptWorker.ts l.1-8)
WorkerLoaded(w) ==
    /\ calls[w].thread = "loading"
    /\ calls' = [calls EXCEPT ![w].thread = "listening"]
    /\ UNCHANGED dashboardVars

\* the worker thread receives the payload (encryptWorker.ts l.8-16)
WorkerHandlesMessage(w) ==
    /\ calls[w].thread = "listening"
    /\ \E outcome \in Outcomes :
           calls' = [calls EXCEPT ![w] = workerOnMessage(@, outcome)]
    /\ UNCHANGED dashboardVars

\* an uncaught exception of the worker thread before its handler has run
\* (the script fails to load, l.24-26 / encryptWorker.ts l.4-6): the Worker
\* object emits error, then exit with code 1
WorkerCrashes(w) ==
    /\ calls[w].thread = "loading"
    /\ calls' = [calls EXCEPT
                   ![w].outbox = @ \o << ErrorEvent("crash"), ExitEvent(1) >>,
                   ![w].thread = "exited"]
    /\ UNCHANGED dashboardVars

\* the worker thread ends without an exception (process.exit(code) in the
\* thread, or the thread is terminated): the Worker object emits exit
WorkerExits(w) ==
    /\ calls[w].thread \in {"loading", "listening", "idle"}
    /\ \E code \in ExitCodes :
           calls' = [calls EXCEPT ![w].outbox = Append(@, ExitEvent(code)),
                                  ![w].thread = "exited"]
    /\ UNCHANGED dashboardVars

\* the caller's event loop dispatches the next event of a Worker object
\* (crypto.ts l.34-53)
DispatchEvent(w) ==
    /\ calls[w].outbox # << >>
    /\ calls' = [calls EXCEPT
                   ![w] = Dispatch([@ EXCEPT !.outbox = Tail(@)],
                                   Head(calls[w].outbox))]
    /\ UNCHANGED dashboardVars

WorkerNext ==
    \E w \in Calls :
        \/ RunEncryptionInWorker(w)
        \/ WorkerLoaded(w)
        \/ WorkerHandlesMessage(w)
        \/ WorkerCrashes(w)
        \/ WorkerExits(w)
        \/ DispatchEvent(w)

\* Node runs a started thread and its event loops dispatch what is queued; a
\* crash or an exit is never owed.
WorkerFairness ==
    \A w \in Calls :
        /\ WF_vars(WorkerLoaded(w))
        /\ WF_vars(WorkerHandlesMessage(w))
        /\ WF_vars(DispatchEvent(w))

WorkerSpec == Init /\ [][WorkerNext]_vars /\ WorkerFairness

CallsOK ==
    \A w \in Calls :
        /\ calls[w].promise \in {"none", "pending", "resolved", "rejected"}
        /\ calls[w].thread \in {"none", "loading", "listening", "idle", "exited"}
        /\ calls[w].listeners \subseteq {"message", "error", "exit"}

TypeOK ==
    /\ isConnected \in BOOLEAN
    /\ socket \in {"idle", "connected", "disconnected"}
    /\ heap \in 3..MaxHeap
    /\ \A i \in 1..Len(patients) : patients[i].id \in Ids
    /\ DOMAIN historyMap \subseteq Ids

\* ============================================================ properties
\* A step that receives a data event allocates, so it moves heap; lastEvent'
\* names the event and lastBatch' is what it delivered.
IsSnapshotStep == heap' # heap /\ lastEvent' = "initial_patients"

IsUpdateStep == heap' # heap /\ lastEvent' = "vitals_update"

\* the address of the array the last data event delivered (its records
\* follow it); everything at a lower address existed before that event
BatchBase == lastBatch[1].ref - 1

ComparedFields ==
    {"heartRate", "bloodPressureSystolic", "bloodPressureDiastolic",
     "oxygenSaturation", "respiratoryRate", "temperature", "timestamp"}

ValueEqual(a, b) == \A f \in ComparedFields : a[f] = b[f]

IdsOf(seq) == { seq[i].id : i \in 1..Len(seq) }

\* the last record of a batch that refers to id
LastRecord(batch, id) ==
    LET idx == { i \in 1..Len(batch) : batch[i].id = id }
    IN  batch[CHOOSE i \in idx : \A j \in idx : j <= i]

\* C1: a vitals_update whose batch changes no entity (it is empty, or every
\* record refers to an id of the collection and is value-equal to the entity
\* stored under that id) leaves the collection's identity and elements as
\* they were; and the collection gets a new identity only if some position
\* holds another object than before or the collection grew.
BatchChangesNothing(prev, batch) ==
    \A r \in 1..Len(batch) :
        /\ batch[r].id \in IdsOf(prev)
        /\ \A i \in 1..Len(prev) :
               prev[i].id = batch[r].id => ValueEqual(prev[i], batch[r])

ReplacedOrAppended(prev, next) ==
    \/ Len(next) > Len(prev)
    \/ \E i \in 1..Len(prev) : i <= Len(next) /\ next[i].ref # prev[i].ref

C1_NoOpMergeKeepsIdentity ==
    [][IsUpdateStep =>
          /\ BatchChangesNothing(patients, lastBatch') =>
                 patientsRef' = patientsRef /\ patients' = patients
          /\ patientsRef' # patientsRef =>
                 ReplacedOrAppended(patients, patients')]_vars

\* a non-empty batch has been merged and the collection, not empty, still has
\* the identity it had before the batch arrived
C1_Witness ==
    /\ lastEvent = "vitals_update"
    /\ lastBatch # << >>
    /\ patients # << >>
    /\ patientsRef < BatchBase

\* C2: across a vitals_update, every entity of the previous collection with no
\* record in the batch, or whose last record in the batch is value-equal to
\* it, is the same object at the same position afterwards.
C2_ReferencePreservation ==
    [][IsUpdateStep =>
          \A i \in 1..Len(patients) :
              (\/ patients[i].id \notin IdsOf(lastBatch')
               \/ ValueEqual(patients[i],
                             LastRecord(lastBatch', patients[i].id)))
              => /\ i <= Len(patients')
                 /\ patients'[i] = patients[i]]_vars

\* the batch rebuilt the collection, and the rebuilt collection holds an
\* object older than the batch for an id the batch has a record of
C2_Witness ==
    /\ lastEvent = "vitals_update"
    /\ lastBatch # << >>
    /\ patientsRef > BatchBase
    /\ \E i \in 1..Len(patients) :
           /\ patients[i].ref < BatchBase
           /\ patients[i].id \in IdsOf(lastBatch)

\* C3: the merged collection is the previous one, each entity replaced in place
\* by its (last) update if that differs, followed by the ids not previously
\* known in the order of their first appearance in the batch.
RECURSIVE FirstAppearances(_)
FirstAppearances(ids) ==
    IF ids = << >> THEN << >>
    ELSE LET front == FirstAppearances(SubSeq(ids, 1, Len(ids) - 1))
         IN  IF \E k \in 1..Len(front) : front[k] = Last(ids)
             THEN front ELSE Append(front, Last(ids))

NewIdsInOrder(prev, batch) ==
    SelectSeq(FirstAppearances([i \in 1..Len(batch) |-> batch[i].id]),
              LAMBDA id : id \notin IdsOf(prev))

InPlace(prev, batch) ==
    [i \in 1..Len(prev) |->
        IF /\ prev[i].id \in IdsOf(batch)
           /\ ~ValueEqual(prev[i], LastRecord(batch, prev[i].id))
        THEN LastRecord(batch, prev[i].id)
        ELSE prev[i]]

C3_MergeOrder ==
    [][IsUpdateStep /\ lastBatch' # << >> =>
          /\ Len(patients') =
                Len(patients) + Len(NewIdsInOrder(patients, lastBatch'))
          /\ SubSeq(patients', 1, Len(patients)) =
                InPlace(patients, lastBatch')
          /\ [k \in 1..Len(NewIdsInOrder(patients, lastBatch')) |->
                 patients'[Len(patients) + k].id]
              = NewIdsInOrder(patients, lastBatch')]_vars

C5_UniqueIds ==
    \A i, j \in 1..Len(patients) :
        patients[i].id = patients[j].id => i = j

\* C6: a vitals_update removes no entity: every id present before it is
\* present after it, and the collection does not get shorter.
C6_NoRemoval ==
    [][IsUpdateStep =>
          /\ IdsOf(patients) \subseteq IdsOf(patients')
          /\ Len(patients') >= Len(patients)]_vars

\* the batch rebuilt the collection, which still holds an entity the batch
\* has no record of
C6_Witness ==
    /\ lastEvent = "vitals_update"
    /\ lastBatch # << >>
    /\ patientsRef > BatchBase
    /\ \E i \in 1..Len(patients) : patients[i].id \notin IdsOf(lastBatch)

\* the heart rates a record of the input domain can carry
HeartRates == { v.heartRate : v \in Vitals }

SamplePatients == { PatientVitals(heap, id, v) : id \in Ids, v \in Vitals }

\* C7: appendHistory applied to a stored history and the value of its last
\* element returns that very history (identity and contents); and a data
\* event whose every record has a stored history ending in the record's
\* heartRate leaves the history map, identity and contents, as it was.
AppendOfLastIsIdentity ==
    \A id \in DOMAIN historyMap : \A p \in SamplePatients :
        appendHistory(historyMap[id], Last(historyMap[id].vals), p, heap)
            = historyMap[id]

BatchRepeatsHistory(map, batch) ==
    \A r \in 1..Len(batch) :
        /\ batch[r].id \in DOMAIN map
        /\ Last(map[batch[r].id].vals) = batch[r].heartRate

C7_HistoryDedup ==
    /\ []AppendOfLastIsIdentity
    /\ [][(IsUpdateStep \/ IsSnapshotStep)
            /\ BatchRepeatsHistory(historyMap, lastBatch') =>
              historyMapRef' = historyMapRef /\ historyMap' = historyMap]_vars

\* a non-empty batch has been processed and the history map, not empty, still
\* has the identity it had before the batch arrived
C7_Witness ==
    /\ lastEvent \in {"initial_patients", "vitals_update"}
    /\ lastBatch # << >>
    /\ DOMAIN historyMap # {}
    /\ historyMapRef < BatchBase

\* C8: every stored history has exactly HISTORY_LENGTH elements, and
\* appending to it a value other than its last element yields it without its
\* oldest element, followed by the value.
C8_HistoryWindow ==
    \A id \in DOMAIN historyMap :
        /\ Len(historyMap[id].vals) = HISTORY_LENGTH
        /\ \A v \in HeartRates : \A p \in SamplePatients :
               v # Last(historyMap[id].vals) =>
                   appendHistory(historyMap[id], v, p, heap).vals
                       = Append(Tail(historyMap[id].vals), v)

\* a history that was appended to twice: its two newest elements are received
\* heart rates and the two oldest elements of the seed are gone
C8_Witness ==
    \E id \in DOMAIN historyMap :
        LET seed == buildSeedHistory(PatientVitals(0, id, BaseVitals), 0).vals
            vals == historyMap[id].vals
        IN  /\ vals[HISTORY_LENGTH - 1] = 70
            /\ vals[HISTORY_LENGTH] = 80
            /\ SubSeq(vals, 1, HISTORY_LENGTH - 2)
                   = SubSeq(seed, 3, HISTORY_LENGTH)

\* C9: a record lacking a required field is dropped from its batch: no entity
\* of the collection and no history holds a value that was missing.
C9_MalformedDropped ==
    /\ \A i \in 1..Len(patients) :
           \A f \in ComparedFields : patients[i][f] # Undefined
    /\ \A id \in DOMAIN historyMap :
           \A k \in 1..Len(historyMap[id].vals) :
               historyMap[id].vals[k] # Undefined

\* C10: a disconnect sets the connectivity flag to false and leaves the
\* collection and the history map, identity and contents, as they were.
C10_DisconnectKeepsData ==
    [][isConnected /\ ~isConnected' =>
          UNCHANGED << patients, patientsRef, historyMap,
                       historyMapRef >>]_vars

\* disconnected, with patients and histories still on display
C10_Witness ==
    /\ ~isConnected
    /\ patients # << >>
    /\ DOMAIN historyMap # {}

\* C14: a vitals_update gives the collection a new identity only if some
\* entity was replaced or appended, and the history map a new identity only
\* if some entity's history is another sequence than before; a batch that
\* changes neither leaves both identities as they were.
SomeHistoryChanged(prev, next) ==
    \E id \in DOMAIN next :
        id \notin DOMAIN prev \/ next[id].vals # prev[id].vals

C14_PublishOnlyChanges ==
    [][IsUpdateStep =>
          /\ patientsRef' # patientsRef =>
                 ReplacedOrAppended(patients, patients')
          /\ historyMapRef' # historyMapRef =>
                 SomeHistoryChanged(historyMap, historyMap')
          /\ (~ReplacedOrAppended(patients, patients')
               /\ ~SomeHistoryChanged(historyMap, historyMap')) =>
                 patientsRef' = patientsRef
                 /\ historyMapRef' = historyMapRef]_vars

\* a non-empty batch rebuilt the collection and left the history map's
\* identity alone
C14_Witness ==
    /\ lastEvent = "vitals_update"
    /\ lastBatch # << >>
    /\ patientsRef > BatchBase
    /\ DOMAIN historyMap # {}
    /\ historyMapRef < BatchBase

\* C15 as stated: a session that went from Connected to Disconnected never
\* becomes Connected again.
C15_DisconnectedIsTerminal ==
    [][socket = "disconnected" => ~isConnected']_vars

\* C15 as amended: the flag starts false and is true exactly while the
\* connection is up: true after each connect event (the first handshake and
\* every reconnection), false after each disconnect event.
C15_FlagFollowsConnection ==
    isConnected <=> socket = "connected"

\* a session that was Connected and is Disconnected, its data still there
C15_Witness ==
    /\ socket = "disconnected"
    /\ ~isConnected
    /\ lastEvent # "none"

\* C16: the records of an update batch are appended to their entity's history
\* one after another in batch order, each compared against the history as
\* the preceding records of the batch left it.
RECURSIVE ChainedHistory(_, _, _)
ChainedHistory(prev, batch, n) ==
    IF n = 0 THEN prev
    ELSE LET before == ChainedHistory(prev, batch, n - 1)
             update == batch[n]
         IN  [k \in DOMAIN before \cup {update.id} |->
                 IF k = update.id
                 THEN appendHistory(Lookup(before, update.id),
                                    update.heartRate, update, 0)
                 ELSE before[k]]

C16_HistoryInArrivalOrder ==
    [][IsUpdateStep =>
          \A id \in IdsOf(lastBatch') :
              /\ id \in DOMAIN historyMap'
              /\ historyMap'[id].vals =
                    ChainedHistory(historyMap, lastBatch',
                                   Len(lastBatch'))[id].vals]_vars

\* C18: an initial_patients event makes the collection exactly the array it
\* delivered and leaves every entity of it with a history; and in every
\* state every id of the collection has an entry in the history map.
EveryPatientHasHistory == IdsOf(patients) \subseteq DOMAIN historyMap

C18_SnapshotReplacesAndSeeds ==
    /\ []EveryPatientHasHistory
    /\ [][IsSnapshotStep =>
              /\ patients' = lastBatch'
              /\ patientsRef' = heap
              /\ \A id \in IdsOf(lastBatch') :
                     /\ id \in DOMAIN historyMap'
                     /\ Len(historyMap'[id].vals) = HISTORY_LENGTH]_vars

\* a snapshot replaced a collection that held an entity the snapshot does not
\* mention: its history is still in the map, the entity is gone
C18_Witness ==
    /\ lastEvent = "initial_patients"
    /\ lastBatch # << >>
    /\ patients = lastBatch
    /\ patientsRef = BatchBase
    /\ \E id \in DOMAIN historyMap : id \notin IdsOf(patients)

\* C19: for every entity of the collection, the last element of its history
\* is the entity's heartRate.
C19_HistoryMatchesHeartRate ==
    \A i \in 1..Len(patients) :
        /\ patients[i].id \in DOMAIN historyMap
        /\ Last(historyMap[patients[i].id].vals) = patients[i].heartRate

\* ------------------------------------------- worker pipeline properties
Settled(w) == calls[w].promise \in {"resolved", "rejected"}

HasMessage(events) == \E k \in 1..Len(events) : events[k].type = "message"

HasError(events) == \E k \in 1..Len(events) : events[k].type = "error"

\* C11: a fault thrown by simulateHeavyEncryption in the worker is reported as
\* one message { ok: false, error } and as nothing else (no error event, no
\* exit); once that message is dispatched the promise is rejected with the
\* error string, or with 'Worker failed' when the string is empty; and the
\* promise of such an invocation is eventually rejected.
FaultReported(w) ==
    calls[w].fault = "thrown" =>
        /\ calls[w].posted = << Message(FALSE, calls[w].faultText) >>
        /\ ~HasError(calls[w].outbox)
        /\ calls[w].firstEvent.type \in {"none", "message"}
        /\ ~HasMessage(calls[w].outbox) =>
              /\ calls[w].firstEvent = Message(FALSE, calls[w].faultText)
              /\ calls[w].promise = "rejected"
              /\ calls[w].reason = IF calls[w].faultText = ""
                                   THEN "Worker failed"
                                   ELSE calls[w].faultText

C11_FaultBecomesRejection ==
    /\ [](\A w \in Calls : FaultReported(w))
    /\ \A w \in Calls :
           (calls[w].fault = "thrown") ~> (calls[w].promise = "rejected")

\* a fault with an empty message was thrown and the promise is rejected with
\* the fallback reason
C11_Witness ==
    \E w \in Calls :
        /\ calls[w].fault = "thrown"
        /\ calls[w].faultText = ""
        /\ calls[w].promise = "rejected"
        /\ calls[w].reason = "Worker failed"

\* C12: once every invocation made has settled and nothing is left to
\* dispatch or to run, no worker is alive.
LiveWorkers ==
    { w \in Calls : calls[w].thread \in {"loading", "listening", "idle"} }

Quiescent ==
    /\ \E w \in Calls : calls[w].promise # "none"
    /\ \A w \in Calls :
           /\ calls[w].promise # "pending"
           /\ calls[w].outbox = << >>
           /\ calls[w].thread \notin {"loading", "listening"}

C12_WorkersTornDown == Quiescent => LiveWorkers = {}

\* C13: when the first event of a worker is an error, or an exit with a
\* non-zero code, the promise is rejected, with the emitted error or with
\* 'Worker exited with code <code>'.
C13_AbnormalEndRejects ==
    \A w \in Calls :
        /\ calls[w].firstEvent.type = "error" =>
              /\ calls[w].promise = "rejected"
              /\ calls[w].reason = calls[w].firstEvent.text
        /\ (calls[w].firstEvent.type = "exit"
            /\ calls[w].firstEvent.code # 0) =>
              /\ calls[w].promise = "rejected"
              /\ calls[w].reason = ExitReason(calls[w].firstEvent.code)

\* a worker exited with code 1 before any message and its promise is rejected
C13_Witness ==
    \E w \in Calls :
        /\ calls[w].firstEvent = ExitEvent(1)
        /\ calls[w].posted = << >>
        /\ calls[w].promise = "rejected"
        /\ calls[w].reason = "Worker exited with code 1"

\* C17: a worker posts at most one reply, and exactly one once its handler has
\* run; resolve / reject is called at most once per invocation; after the
\* first event no listener is left; and a settled promise keeps its outcome
\* and its reason.
OneResult(w) ==
    /\ Len(calls[w].posted) <= 1
    /\ calls[w].thread = "idle" => Len(calls[w].posted) = 1
    /\ calls[w].settleCalls <= 1
    /\ calls[w].firstEvent # NoEvent => calls[w].listeners = {}

C17_ExactlyOneResult ==
    /\ [](\A w \in Calls : OneResult(w))
    /\ [][\A w \in Calls :
             Settled(w) => /\ calls'[w].promise = calls[w].promise
                           /\ calls'[w].reason = calls[w].reason]_vars

\* a promise resolved by the worker's message, whose worker has exited since:
\* the exit event was dispatched and changed nothing
C17_Witness ==
    \E w \in Calls :
        /\ calls[w].promise = "resolved"
        /\ calls[w].firstEvent.type = "message"
        /\ calls[w].thread = "exited"
        /\ calls[w].outbox = << >>

\* C20: whatever the first event of a worker is, the promise is settled once
\* its listener has run.
C20_FirstEventSettles ==
    \A w \in Calls :
        calls[w].firstEvent # NoEvent => calls[w].promise # "pending"

====
